---- MODULE Spec2Model ----
(***************************************************************************)
(* Model of graphviz/rendering.py: the Unflatten, Pipe, RenderFile and     *)
(* RenderFileView mixins that save DOT source, run the Graphviz layout     *)
(* command and open the result in a viewer.                                *)
(*                                                                         *)
(* Text is a sequence of code points, bytes a sequence of 0..255.  The     *)
(* backend, files and Source modules are imported by rendering.py; their   *)
(* behaviour is taken from the written specification.                      *)
(***************************************************************************)
EXTENDS Integers, Sequences, FiniteSets, TLC

VARIABLES
    self,       \* the object the methods are called on (read-only fields)
    PLATFORM,   \* backend.PLATFORM of the host
    methods,    \* names of the _view_* attributes of the object's class
    tool,       \* behaviour of the external executable on this host
    fs,         \* paths that exist on disk
    call,       \* frame of the running call: method, arguments, locals
    pc,         \* position inside the running call
    log,        \* side effects of the running call, in order
    outcome     \* what the call handed back to its caller

vars == <<self, PLATFORM, methods, tool, fs, call, pc, log, outcome>>

None == "None"

(***************************************************************************)
(* Bounds of the model.                                                    *)
(***************************************************************************)
MaxSrcLen == 2

(***************************************************************************)
(* Python's codecs, as used at rendering.py:139 and :143.                  *)
(***************************************************************************)

\* code points: 'a', e-acute, the euro sign
Chars == {97, 233, 8364}

EncodingNames == {"utf-8", "UTF-8", "utf8", "latin-1", "ascii"}

\* the normalisation the codec registry applies before its cache lookup
NormalizeEncoding(name) ==
    IF name = "UTF-8" THEN "utf-8" ELSE name

\* the codec a name resolves to
Codec(name) ==
    CASE name \in {"utf-8", "UTF-8", "utf8"} -> "utf_8"
      [] name = "latin-1" -> "iso8859_1"
      [] name = "ascii" -> "ascii"

EncodeChar(codec, c) ==
    CASE codec = "ascii" -> IF c < 128 THEN <<c>> ELSE <<-1>>
      [] codec = "iso8859_1" -> IF c < 256 THEN <<c>> ELSE <<-1>>
      [] codec = "utf_8" ->
            IF c < 128 THEN <<c>>
            ELSE IF c < 2048 THEN <<192 + (c \div 64), 128 + (c % 64)>>
            ELSE <<224 + (c \div 4096), 128 + ((c \div 64) % 64), 128 + (c % 64)>>

RECURSIVE EncodeSeq(_, _)
EncodeSeq(codec, text) ==
    IF text = <<>> THEN <<>>
    ELSE EncodeChar(codec, Head(text)) \o EncodeSeq(codec, Tail(text))

\* str.encode: the bytes, or UnicodeEncodeError
Encode(name, text) ==
    LET b == EncodeSeq(Codec(name), text)
    IN  IF \E i \in 1..Len(b) : b[i] = -1
        THEN [kind |-> "error", val |-> <<>>, error |-> "UnicodeEncodeError",
              msg |-> <<Codec(name)>>]
        ELSE [kind |-> "bytes", val |-> b, error |-> None, msg |-> <<>>]

IsCont(b, i) == i <= Len(b) /\ b[i] >= 128 /\ b[i] < 192

RECURSIVE DecodeUtf8(_)
DecodeUtf8(b) ==
    IF b = <<>> THEN <<>>
    ELSE IF b[1] < 128 THEN <<b[1]>> \o DecodeUtf8(Tail(b))
    ELSE IF b[1] >= 194 /\ b[1] < 224 /\ IsCont(b, 2)
         THEN <<(b[1] - 192) * 64 + (b[2] - 128)>> \o DecodeUtf8(SubSeq(b, 3, Len(b)))
    ELSE IF b[1] >= 224 /\ b[1] < 240 /\ IsCont(b, 2) /\ IsCont(b, 3)
            /\ (b[1] - 224) * 4096 + (b[2] - 128) * 64 + (b[3] - 128) >= 2048
         THEN <<(b[1] - 224) * 4096 + (b[2] - 128) * 64 + (b[3] - 128)>>
              \o DecodeUtf8(SubSeq(b, 4, Len(b)))
    ELSE <<-1>>

DecodeSeq(codec, b) ==
    CASE codec = "ascii" -> [i \in 1..Len(b) |-> IF b[i] < 128 THEN b[i] ELSE -1]
      [] codec = "iso8859_1" -> b
      [] codec = "utf_8" -> DecodeUtf8(b)

\* bytes.decode: the text, or UnicodeDecodeError
Decode(name, b) ==
    LET t == DecodeSeq(Codec(name), b)
    IN  IF \E i \in 1..Len(t) : t[i] = -1
        THEN [kind |-> "error", val |-> <<>>, error |-> "UnicodeDecodeError",
              msg |-> <<Codec(name)>>]
        ELSE [kind |-> "str", val |-> t, error |-> None, msg |-> <<>>]

(***************************************************************************)
(* Results of calls and the side effects they had.                         *)
(***************************************************************************)

\* one side effect: ev is "save", "run" (an attempt to execute name),
\* "rendered" (the layout command wrote path), "remove" or "view"
Ev(ev, name, path, quiet) ==
    [ev |-> ev, name |-> name, path |-> path, quiet |-> quiet]

Raise(error, msg, effects) ==
    [kind |-> "raise", val |-> None, error |-> error, msg |-> msg,
     effects |-> effects]

Return(val, effects) ==
    [kind |-> "return", val |-> val, error |-> None, msg |-> <<>>,
     effects |-> effects]

NoOutcome ==
    [kind |-> "none", val |-> None, error |-> None, msg |-> <<>>, effects |-> <<>>]

(***************************************************************************)
(* The backend module (imported at rendering.py:8): command builder,       *)
(* process runner and viewer launchers.                                    *)
(***************************************************************************)
ENGINES == {"dot", "neato"}

FORMATS == {"pdf", "svg"}

RENDERERS == {"cairo"}

FORMATTERS == {"cairo"}

\* what the external executable does on this host
Tools ==
    {[run |-> "notfound", out |-> "echo"],
     [run |-> "exit1", out |-> "echo"],
     [run |-> "ok", out |-> "echo"],
     [run |-> "ok", out |-> "wrap"],
     [run |-> "ok", out |-> "binary"]}

\* standard output of the executable for the given standard input
ToolStdout(t, stdin) ==
    CASE t.out = "echo" -> stdin
      [] t.out = "wrap" -> <<60>> \o stdin \o <<62>>
      [] t.out = "binary" -> <<137, 255>> \o stdin

\* Command Builder: the error of an invalid combination, or nothing
CommandError(engine, format, renderer, formatter) ==
    IF engine \notin ENGINES THEN Raise("ConfigurationError", <<engine>>, <<>>)
    ELSE IF format \notin FORMATS THEN Raise("ConfigurationError", <<format>>, <<>>)
    ELSE IF formatter # None /\ renderer = None
         THEN Raise("RequiredArgumentError", <<"formatter">>, <<>>)
    ELSE IF renderer # None /\ renderer \notin RENDERERS
         THEN Raise("ConfigurationError", <<renderer>>, <<>>)
    ELSE IF formatter # None /\ formatter \notin FORMATTERS
         THEN Raise("ConfigurationError", <<formatter>>, <<>>)
    ELSE NoOutcome

\* Process Runner: one attempt to execute exe on input arg
RunCheck(t, exe, arg, stdin, quiet) ==
    CASE t.run = "notfound" ->
            Raise("ExecutableNotFound", <<exe>>, <<Ev("run", exe, arg, quiet)>>)
      [] t.run = "exit1" ->
            Raise("CalledProcessError", IF quiet THEN <<"1">> ELSE <<"1", "stderr">>,
                  <<Ev("run", exe, arg, quiet)>>)
      [] t.run = "ok" ->
            Return(ToolStdout(t, stdin), <<Ev("run", exe, arg, quiet)>>)

\* backend.pipe_lines: encoded source in, raw bytes out
pipe_lines(t, engine, format, lines, input_encoding, renderer, formatter, quiet) ==
    LET bad == CommandError(engine, format, renderer, formatter)
        stdin == Encode(input_encoding, lines)
    IN  IF bad.kind = "raise" THEN bad
        ELSE IF stdin.kind = "error" THEN Raise(stdin.error, stdin.msg, <<>>)
        ELSE LET proc == RunCheck(t, engine, "-", stdin.val, quiet)
             IN  IF proc.kind = "raise" THEN proc
                 ELSE Return([type |-> "bytes", data |-> proc.val], proc.effects)

\* backend.pipe_lines_string: one encoding for standard input and output
pipe_lines_string(t, engine, format, lines, encoding, renderer, formatter, quiet) ==
    LET bad == CommandError(engine, format, renderer, formatter)
        stdin == Encode(encoding, lines)
    IN  IF bad.kind = "raise" THEN bad
        ELSE IF stdin.kind = "error" THEN Raise(stdin.error, stdin.msg, <<>>)
        ELSE LET proc == RunCheck(t, engine, "-", stdin.val, quiet)
                 text == Decode(encoding, proc.val)
             IN  IF proc.kind = "raise" THEN proc
                 ELSE IF text.kind = "error"
                      THEN Raise(text.error, text.msg, proc.effects)
                 ELSE Return([type |-> "str", data |-> text.val], proc.effects)

\* backend.unflatten: text in, rewritten text out
backend_unflatten(t, source, stagger, fanout, chain, encoding) ==
    IF fanout /\ stagger = None
    THEN Raise("RequiredArgumentError", <<"fanout">>, <<>>)
    ELSE LET stdin == Encode(encoding, source)
         IN  IF stdin.kind = "error" THEN Raise(stdin.error, stdin.msg, <<>>)
             ELSE LET proc == RunCheck(t, "unflatten", "-", stdin.val, FALSE)
                      text == Decode(encoding, proc.val)
                  IN  IF proc.kind = "raise" THEN proc
                      ELSE IF text.kind = "error"
                           THEN Raise(text.error, text.msg, proc.effects)
                      ELSE Return(text.val, proc.effects)

\* backend.render: lay out the file at filepath, return the path written
backend_render(t, engine, format, filepath, renderer, formatter, quiet) ==
    LET bad == CommandError(engine, format, renderer, formatter)
    IN  IF bad.kind = "raise" THEN bad
        ELSE LET proc == RunCheck(t, engine, filepath, <<>>, quiet)
                 rendered == filepath \o "." \o format
             IN  IF proc.kind = "raise" THEN proc
                 ELSE Return(rendered,
                             proc.effects \o <<Ev("rendered", engine, rendered, quiet)>>)

\* files.File.save: the path the source is written to
SavePath(obj, filename, directory) ==
    LET f == IF filename = None THEN obj.filename ELSE filename
        d == IF directory = None THEN obj.directory ELSE directory
    IN  IF d = "" THEN f ELSE d \o "/" \o f

\* the Source constructor (imported at rendering.py:52)
Source(source, filename, directory, format, engine, encoding) ==
    [source |-> source, filename |-> filename, directory |-> directory,
     format |-> format, engine |-> engine, encoding |-> encoding]

\* unflatten that leaves the encoding of the new Source to its default
Unflatten_default_encoding(obj, t, stagger, fanout, chain) ==
    LET out == backend_unflatten(t, obj.source, stagger, fanout, chain, obj.encoding)
    IN  IF out.kind = "raise" THEN out
        ELSE Return(Source(out.val, obj.filename, obj.directory,
                           obj.format, obj.engine, "utf-8"), out.effects)

(***************************************************************************)
(* Unflatten.unflatten, rendering.py:26-60                                 *)
(***************************************************************************)
Unflatten(obj, t, stagger, fanout, chain) ==
    LET out == backend_unflatten(t, obj.source, stagger, fanout, chain, obj.encoding)
    IN  IF out.kind = "raise" THEN out
        ELSE Return(Source(out.val, obj.filename, obj.directory,
                           obj.format, obj.engine, obj.encoding), out.effects)

(***************************************************************************)
(* Pipe.pipe, rendering.py:132-144                                         *)
(***************************************************************************)

\* codecs.lookup(a) is codecs.lookup(b): one registry entry per normalised
\* name; two spellings of one codec may or may not share the entry (same)
LookupIs(a, b, same) ==
    IF NormalizeEncoding(a) = NormalizeEncoding(b) THEN TRUE
    ELSE IF Codec(a) # Codec(b) THEN FALSE
    ELSE same

\* raw.decode(encoding), rendering.py:143
DecodeRaw(raw, encoding) ==
    IF raw.kind = "raise" THEN raw
    ELSE LET text == Decode(encoding, raw.val.data)
         IN  IF text.kind = "error" THEN Raise(text.error, text.msg, raw.effects)
             ELSE Return([type |-> "str", data |-> text.val], raw.effects)

\* pipe that hands back the raw bytes on the different-codec-object path
Pipe_raw_on_generic(obj, t, format, renderer, formatter, quiet, encoding, same) ==
    LET fmt == IF format = None THEN obj.format ELSE format
    IN  IF encoding # None /\ LookupIs(encoding, obj.encoding, same)
        THEN pipe_lines_string(t, obj.engine, fmt, obj.source, encoding,
                               renderer, formatter, quiet)
        ELSE pipe_lines(t, obj.engine, fmt, obj.source, obj.encoding,
                        renderer, formatter, quiet)

\* pipe that passes format and engine in each other's place
Pipe_swapped_args(obj, t, format, renderer, formatter, quiet, encoding, same) ==
    LET fmt == IF format = None THEN obj.format ELSE format
    IN  IF encoding # None
        THEN IF LookupIs(encoding, obj.encoding, same)
             THEN pipe_lines_string(t, fmt, obj.engine, obj.source, encoding,
                                    renderer, formatter, quiet)
             ELSE DecodeRaw(pipe_lines(t, fmt, obj.engine, obj.source, obj.encoding,
                                       renderer, formatter, quiet), encoding)
        ELSE pipe_lines(t, fmt, obj.engine, obj.source, obj.encoding,
                        renderer, formatter, quiet)

Pipe(obj, t, format, renderer, formatter, quiet, encoding, same) ==
    LET fmt == IF format = None THEN obj.format ELSE format
    IN  IF encoding # None
        THEN IF LookupIs(encoding, obj.encoding, same)
             THEN pipe_lines_string(t, obj.engine, fmt, obj.source, encoding,
                                    renderer, formatter, quiet)
             ELSE DecodeRaw(pipe_lines(t, obj.engine, fmt, obj.source, obj.encoding,
                                       renderer, formatter, quiet), encoding)
        ELSE pipe_lines(t, obj.engine, fmt, obj.source, obj.encoding,
                        renderer, formatter, quiet)

(***************************************************************************)
(* RenderFileView._view, rendering.py:249-263                              *)
(***************************************************************************)

\* getattr(self, name, None)
Getattr(name) == IF name \in DOMAIN methods THEN methods[name] ELSE None

\* _view that tries the platform-only method first
_view_platform_first(filepath, format, quiet) ==
    LET methodnames == <<"_view_" \o PLATFORM,
                         "_view_" \o format \o "_" \o PLATFORM>>
        found == {i \in 1..Len(methodnames) : Getattr(methodnames[i]) # None}
        first == CHOOSE i \in found : \A j \in found : i <= j
    IN  IF found = {}
        THEN Raise("RuntimeError", <<format, PLATFORM>>, <<>>)
        ELSE Return(None, <<Ev("view", Getattr(methodnames[first]), filepath, quiet)>>)

_view(filepath, format, quiet) ==
    LET methodnames == <<"_view_" \o format \o "_" \o PLATFORM,
                         "_view_" \o PLATFORM>>
        found == {i \in 1..Len(methodnames) : Getattr(methodnames[i]) # None}
        first == CHOOSE i \in found : \A j \in found : i <= j
    IN  IF found = {}
        THEN Raise("RuntimeError", <<format, PLATFORM>>, <<>>)
        ELSE Return(None, <<Ev("view", Getattr(methodnames[first]), filepath, quiet)>>)

(***************************************************************************)
(* RenderFile.render, rendering.py:150-211, statement by statement.  A     *)
(* machine m is the frame of the call with the disk, the side effects so   *)
(* far and the result.                                                     *)
(***************************************************************************)
RenderKw(filename, directory, view, cleanup, format, renderer, formatter, quiet, quiet_view) ==
    [filename |-> filename, directory |-> directory, view |-> view,
     cleanup |-> cleanup, format |-> format, renderer |-> renderer,
     formatter |-> formatter, quiet |-> quiet, quiet_view |-> quiet_view]

NoCall ==
    [entry |-> "none", given |-> <<>>, kw |-> <<>>, filepath |-> None,
     format |-> None, rendered |-> None, viewformat |-> None]

Idle ==
    [call |-> NoCall, fs |-> {}, log |-> <<>>, outcome |-> NoOutcome, pc |-> "idle"]

\* entering render with keyword arguments kw
Enter(entry, given, kw) ==
    [Idle EXCEPT !.call.entry = entry, !.call.given = given, !.call.kw = kw,
                 !.pc = "save"]

Failed(m, err) ==
    [m EXCEPT !.log = m.log \o err.effects, !.outcome = err, !.pc = "done"]

\* filepath = self.save(filename, directory), line 195
save_step(obj, m) ==
    LET filepath == SavePath(obj, m.call.kw.filename, m.call.kw.directory)
    IN  [m EXCEPT !.call.filepath = filepath,
                  !.fs = m.fs \cup {filepath},
                  !.log = Append(m.log, Ev("save", None, filepath, FALSE)),
                  !.pc = "render"]

\* render step that deletes the source in a finally clause
render_step_finally(obj, t, m) ==
    LET format == IF m.call.kw.format = None THEN obj.format ELSE m.call.kw.format
        rendered == backend_render(t, obj.engine, format, m.call.filepath,
                                   m.call.kw.renderer, m.call.kw.formatter,
                                   m.call.kw.quiet)
    IN  IF rendered.kind = "raise"
        THEN IF m.call.kw.cleanup
             THEN [Failed(m, rendered) EXCEPT
                      !.fs = m.fs \ {m.call.filepath},
                      !.log = m.log \o rendered.effects
                              \o <<Ev("remove", None, m.call.filepath, FALSE)>>]
             ELSE Failed(m, rendered)
        ELSE [m EXCEPT !.call.format = format,
                       !.call.rendered = rendered.val,
                       !.fs = m.fs \cup {rendered.val},
                       !.log = m.log \o rendered.effects,
                       !.pc = "cleanup"]

\* render step that runs the layout command again after a non-zero exit
render_step_retry(obj, t, m) ==
    LET format == IF m.call.kw.format = None THEN obj.format ELSE m.call.kw.format
        rendered == backend_render(t, obj.engine, format, m.call.filepath,
                                   m.call.kw.renderer, m.call.kw.formatter,
                                   m.call.kw.quiet)
    IN  IF rendered.kind = "raise"
        THEN IF rendered.error = "CalledProcessError"
             THEN Failed([m EXCEPT !.log = m.log \o rendered.effects], rendered)
             ELSE Failed(m, rendered)
        ELSE [m EXCEPT !.call.format = format,
                       !.call.rendered = rendered.val,
                       !.fs = m.fs \cup {rendered.val},
                       !.log = m.log \o rendered.effects,
                       !.pc = "cleanup"]

\* format default and backend.render, lines 197-202
render_step(obj, t, m) ==
    LET format == IF m.call.kw.format = None THEN obj.format ELSE m.call.kw.format
        rendered == backend_render(t, obj.engine, format, m.call.filepath,
                                   m.call.kw.renderer, m.call.kw.formatter,
                                   m.call.kw.quiet)
    IN  IF rendered.kind = "raise" THEN Failed(m, rendered)
        ELSE [m EXCEPT !.call.format = format,
                       !.call.rendered = rendered.val,
                       !.fs = m.fs \cup {rendered.val},
                       !.log = m.log \o rendered.effects,
                       !.pc = "cleanup"]

\* cleanup step that logs the deletion and leaves the file
cleanup_step_keeps_file(m) ==
    IF m.call.kw.cleanup
    THEN [m EXCEPT !.log = Append(m.log, Ev("remove", None, m.call.filepath, FALSE)),
                   !.pc = "view"]
    ELSE [m EXCEPT !.pc = "view"]

\* if cleanup: os.remove(filepath), lines 204-206
cleanup_step(m) ==
    IF m.call.kw.cleanup
    THEN [m EXCEPT !.fs = m.fs \ {m.call.filepath},
                   !.log = Append(m.log, Ev("remove", None, m.call.filepath, FALSE)),
                   !.pc = "view"]
    ELSE [m EXCEPT !.pc = "view"]

\* view step that looks at the view flag alone
view_step_view_only(obj, m) ==
    IF m.call.kw.view
    THEN LET v == _view(m.call.rendered, obj.format, m.call.kw.quiet_view)
             n == [m EXCEPT !.call.viewformat = obj.format]
         IN  IF v.kind = "raise" THEN Failed(n, v)
             ELSE [n EXCEPT !.log = m.log \o v.effects, !.pc = "return"]
    ELSE [m EXCEPT !.pc = "return"]

\* if quiet_view or view: self._view(rendered, self._format, quiet_view),
\* lines 208-209
view_step(obj, m) ==
    IF m.call.kw.quiet_view \/ m.call.kw.view
    THEN LET v == _view(m.call.rendered, obj.format, m.call.kw.quiet_view)
             n == [m EXCEPT !.call.viewformat = obj.format]
         IN  IF v.kind = "raise" THEN Failed(n, v)
             ELSE [n EXCEPT !.log = m.log \o v.effects, !.pc = "return"]
    ELSE [m EXCEPT !.pc = "return"]

\* return rendered, line 211
return_step(m) ==
    [m EXCEPT !.outcome = Return(m.call.rendered, <<>>), !.pc = "done"]

Step(obj, t, m) ==
    CASE m.pc = "save" -> save_step(obj, m)
      [] m.pc = "render" -> render_step(obj, t, m)
      [] m.pc = "cleanup" -> cleanup_step(m)
      [] m.pc = "view" -> view_step(obj, m)
      [] m.pc = "return" -> return_step(m)

RECURSIVE Run(_, _, _)
Run(obj, t, m) == IF m.pc = "done" THEN m ELSE Run(obj, t, Step(obj, t, m))

\* the whole of render(**kw) on a fresh directory: disk, effects, result
Render(obj, t, kw) ==
    LET m == Run(obj, t, Enter("render", kw, kw))
    IN  [fs |-> m.fs, log |-> m.log, outcome |-> m.outcome]

(***************************************************************************)
(* RenderFileView.view, rendering.py:217-247: the keyword arguments it     *)
(* hands to render                                                         *)
(***************************************************************************)
\* view that does not pass cleanup on
View_drops_cleanup(filename, directory, cleanup, quiet, quiet_view) ==
    RenderKw(filename, directory, TRUE, FALSE, None, None, None,
             quiet, quiet_view)

View(filename, directory, cleanup, quiet, quiet_view) ==
    RenderKw(filename, directory, TRUE, cleanup, None, None, None,
             quiet, quiet_view)

(***************************************************************************)
(* The state machine.                                                      *)
(***************************************************************************)
Machine ==
    [call |-> call, fs |-> fs, log |-> log, outcome |-> outcome, pc |-> pc]

Becomes(m) ==
    /\ call' = m.call
    /\ fs' = m.fs
    /\ log' = m.log
    /\ outcome' = m.outcome
    /\ pc' = m.pc
    /\ UNCHANGED <<self, PLATFORM, methods, tool>>

Optional(S) == {None} \cup S

Filenames == {"g.gv"}

Directories == {"out"}

FormatArgs == {"svg", "bmpx"}

\* _view_* attributes of Render, rendering.py:265-268
RenderMethods ==
    [n \in {"_view_darwin", "_view_freebsd", "_view_linux", "_view_windows"} |->
        CASE n = "_view_darwin" -> "view_darwin"
          [] n = "_view_freebsd" -> "view_unixoid"
          [] n = "_view_linux" -> "view_unixoid"
          [] n = "_view_windows" -> "view_windows"]

\* a subclass adding or hiding viewer methods
Subclass(extra) ==
    [n \in DOMAIN RenderMethods \cup DOMAIN extra |->
        IF n \in DOMAIN extra THEN extra[n] ELSE RenderMethods[n]]

MethodTables ==
    {RenderMethods,
     Subclass([n \in {"_view_svg_linux"} |-> "view_svg"]),
     Subclass([n \in {"_view_pdf_sunos"} |-> "view_pdf"]),
     Subclass([n \in {"_view_windows"} |-> None])}

Platforms == {"darwin", "freebsd", "linux", "windows", "sunos"}

RenderCall ==
    /\ pc = "idle"
    /\ \E filename \in Optional(Filenames), directory \in Optional(Directories),
          view \in BOOLEAN, cleanup \in BOOLEAN, format \in Optional(FormatArgs),
          rf \in {<<None, None>>, <<"cairo", None>>, <<None, "cairo">>},
          quiet \in BOOLEAN, quiet_view \in BOOLEAN :
            LET kw == RenderKw(filename, directory, view, cleanup, format,
                               rf[1], rf[2], quiet, quiet_view)
            IN  Becomes(Enter("render", kw, kw))

ViewCall ==
    /\ pc = "idle"
    /\ \E filename \in Optional(Filenames), directory \in Optional(Directories),
          cleanup \in BOOLEAN, quiet \in BOOLEAN, quiet_view \in BOOLEAN :
            Becomes(Enter("view",
                          [filename |-> filename, directory |-> directory,
                           cleanup |-> cleanup, quiet |-> quiet,
                           quiet_view |-> quiet_view],
                          View(filename, directory, cleanup, quiet, quiet_view)))

RenderSave == pc = "save" /\ Becomes(save_step(self, Machine))

RenderBackend == pc = "render" /\ Becomes(render_step(self, tool, Machine))

RenderCleanup == pc = "cleanup" /\ Becomes(cleanup_step(Machine))

RenderView == pc = "view" /\ Becomes(view_step(self, Machine))

RenderReturn == pc = "return" /\ Becomes(return_step(Machine))

\* a call that is one step: its result and its side effects
Completed(entry, given, out) ==
    [Idle EXCEPT !.call.entry = entry, !.call.given = given,
                 !.log = out.effects, !.outcome = out, !.pc = "done"]

PipeCall ==
    /\ pc = "idle"
    /\ \E format \in Optional(FormatArgs),
          rf \in {<<None, None>>, <<"cairo", None>>, <<None, "cairo">>},
          quiet \in BOOLEAN, encoding \in Optional(EncodingNames), same \in BOOLEAN :
            Becomes(Completed("pipe",
                              [format |-> format, renderer |-> rf[1],
                               formatter |-> rf[2], quiet |-> quiet,
                               encoding |-> encoding, same |-> same],
                              Pipe(self, tool, format, rf[1], rf[2], quiet,
                                   encoding, same)))

UnflattenCall ==
    /\ pc = "idle"
    /\ \E stagger \in Optional({"2"}), fanout \in BOOLEAN, chain \in Optional({"3"}) :
            Becomes(Completed("unflatten",
                              [stagger |-> stagger, fanout |-> fanout,
                               chain |-> chain, obj |-> self],
                              Unflatten(self, tool, stagger, fanout, chain)))

\* the call is over; the next one starts on a fresh directory
Finish == pc = "done" /\ Becomes(Idle)

RECURSIVE Texts(_)
Texts(n) ==
    IF n = 0 THEN {<<>>}
    ELSE Texts(n - 1) \cup {Append(s, c) : s \in Texts(n - 1), c \in Chars}

InitWith(sources, encodings, formats, engines, platforms, tables, tools) ==
    /\ self \in {Source(s, "Source.gv", "", f, e, enc) :
                    s \in sources, f \in formats, e \in engines, enc \in encodings}
    /\ PLATFORM \in platforms
    /\ methods \in tables
    /\ tool \in tools
    /\ call = NoCall
    /\ fs = {}
    /\ log = <<>>
    /\ outcome = NoOutcome
    /\ pc = "idle"

\* every operation, on short sources
Init ==
    InitWith({<<97>>, <<8364>>}, {"utf-8"}, FORMATS, {"dot", "fdq"},
             Platforms, MethodTables, {t \in Tools : t.out = "echo"})

Next ==
    \/ RenderCall
    \/ ViewCall
    \/ RenderSave
    \/ RenderBackend
    \/ RenderCleanup
    \/ RenderView
    \/ RenderReturn
    \/ PipeCall
    \/ UnflattenCall
    \/ Finish

Spec == Init /\ [][Next]_vars

\* pipe and unflatten on every text up to MaxSrcLen and every encoding
InitText ==
    InitWith(Texts(MaxSrcLen), EncodingNames, {"svg"}, {"dot"},
             {"linux"}, {RenderMethods}, Tools)

NextText ==
    \/ PipeCall
    \/ UnflattenCall
    \/ Finish

SpecText == InitText /\ [][NextText]_vars

(***************************************************************************)
(* Vocabulary of the properties.                                           *)
(***************************************************************************)
InRender == call.entry \in {"render", "view"}

HasEv(l, e) == \E i \in 1..Len(l) : l[i].ev = e

Count(l, e) == Cardinality({i \in 1..Len(l) : l[i].ev = e})

\* every b in l comes after some a
After(l, a, b) ==
    \A j \in 1..Len(l) : l[j].ev = b => \E i \in 1..(j - 1) : l[i].ev = a

Raised(e) == outcome.kind = "raise" /\ outcome.error = e

RenderingErrors ==
    {"ExecutableNotFound", "CalledProcessError", "ConfigurationError",
     "RequiredArgumentError"}

(***************************************************************************)
(* C1: with cleanup=true the source file is gone after the call whenever   *)
(* the renderer succeeded, is still on disk when rendering failed, and is  *)
(* never deleted before the renderer has completed.                        *)
(***************************************************************************)
C1_CleanupAfterSuccessOnly ==
    (InRender /\ call.kw.cleanup) =>
        /\ After(log, "rendered", "remove")
        /\ (pc = "done" /\ HasEv(log, "rendered")) => call.filepath \notin fs
        /\ (pc = "done" /\ outcome.kind = "raise"
                /\ outcome.error \in RenderingErrors) =>
              /\ call.filepath \in fs
              /\ ~HasEv(log, "remove")

C1_WitnessFailure ==
    /\ InRender /\ call.kw.cleanup /\ pc = "done"
    /\ Raised("CalledProcessError")
    /\ call.filepath \in fs

C1_WitnessSuccess ==
    /\ InRender /\ call.kw.cleanup /\ pc = "done"
    /\ outcome.kind = "return"
    /\ call.filepath \notin fs

(***************************************************************************)
(* C2: _view picks the handler registered for (format, platform) if there  *)
(* is one, else the one registered for the platform alone; with neither it *)
(* fails with an error naming format and platform and invokes no handler;  *)
(* a selected handler is invoked exactly once, with the rendered file path *)
(* and the quiet flag.                                                     *)
(***************************************************************************)
Registered(name) == name \in DOMAIN methods /\ methods[name] # None

ForFormat(format) == "_view_" \o format \o "_" \o PLATFORM

ForPlatform == "_view_" \o PLATFORM

Views == SelectSeq(log, LAMBDA e : e.ev = "view")

\* _view has been called in this call
Dispatched == InRender /\ call.viewformat # None

C2_ViewerSelection ==
    Dispatched =>
        LET format == call.viewformat
        IN  IF Registered(ForFormat(format))
            THEN Views = <<Ev("view", methods[ForFormat(format)], call.rendered,
                              call.kw.quiet_view)>>
            ELSE IF Registered(ForPlatform)
            THEN Views = <<Ev("view", methods[ForPlatform], call.rendered,
                              call.kw.quiet_view)>>
            ELSE /\ Views = <<>>
                 /\ Raised("RuntimeError")
                 /\ outcome.msg = <<format, PLATFORM>>

C2_Witness ==
    /\ Dispatched
    /\ Registered(ForFormat(call.viewformat))
    /\ Registered(ForPlatform)
    /\ Len(Views) = 1

C2_WitnessUnsupported ==
    Dispatched /\ ~Registered(ForPlatform) /\ Raised("RuntimeError")

(***************************************************************************)
(* C3: when the requested encoding names the codec of the source's own     *)
(* encoding, pipe(encoding=e) gives exactly what pipe() with no encoding   *)
(* followed by decoding the raw bytes with e gives, on the fast path and   *)
(* on the generic path alike.                                              *)
(***************************************************************************)
\* pipe() without encoding, then bytes.decode(e) by the caller
PipeThenDecode(format, renderer, formatter, quiet, e, same) ==
    LET raw == Pipe(self, tool, format, renderer, formatter, quiet, None, same)
        text == Decode(e, raw.val.data)
    IN  IF raw.kind = "raise" THEN raw
        ELSE IF text.kind = "error"
             THEN [raw EXCEPT !.kind = "raise", !.val = None,
                              !.error = "UnicodeDecodeError", !.msg = text.msg]
        ELSE [raw EXCEPT !.val = [type |-> "str", data |-> text.val]]

SameEncodingPipe ==
    /\ pc = "done"
    /\ call.entry = "pipe"
    /\ call.given.encoding # None
    /\ Codec(call.given.encoding) = Codec(self.encoding)

C3_SameEncodingEquivalence ==
    SameEncodingPipe =>
        outcome = PipeThenDecode(call.given.format, call.given.renderer,
                                 call.given.formatter, call.given.quiet,
                                 call.given.encoding, call.given.same)

\* the generic path taken for an alias of the source's encoding, on text
\* that is not ASCII
C3_Witness ==
    /\ SameEncodingPipe
    /\ ~LookupIs(call.given.encoding, self.encoding, call.given.same)
    /\ outcome.kind = "return"
    /\ \E i \in 1..Len(outcome.val.data) : outcome.val.data[i] > 127

C3_WitnessFastPath ==
    /\ SameEncodingPipe
    /\ LookupIs(call.given.encoding, self.encoding, call.given.same)
    /\ call.given.encoding # self.encoding
    /\ outcome.kind = "return"
    /\ \E i \in 1..Len(outcome.val.data) : outcome.val.data[i] > 127

C3_WitnessDecodeError ==
    SameEncodingPipe /\ Raised("UnicodeDecodeError")

(***************************************************************************)
(* C4: view(filename, directory, cleanup, quiet, quiet_view) does what     *)
(* render does with the same arguments and view=True: the same steps in    *)
(* the same order, the same files, the same returned path or error.        *)
(***************************************************************************)
C4_ViewIsRenderWithView ==
    (pc = "done" /\ call.entry = "view") =>
        [fs |-> fs, log |-> log, outcome |-> outcome]
            = Render(self, tool,
                     RenderKw(call.given.filename, call.given.directory, TRUE,
                              call.given.cleanup, None, None, None,
                              call.given.quiet, call.given.quiet_view))

C4_Witness ==
    /\ pc = "done"
    /\ call.entry = "view"
    /\ call.given.cleanup
    /\ ~call.given.quiet_view
    /\ outcome.kind = "return"
    /\ Len(Views) = 1

(***************************************************************************)
(* C5 as stated: a viewer is started if and only if the renderer completed *)
(* successfully and view or quiet_view is true.                            *)
(***************************************************************************)
ViewRequested == call.kw.view \/ call.kw.quiet_view

C5_ViewerIffRequested ==
    (InRender /\ pc = "done") =>
        (HasEv(log, "view") <=> (HasEv(log, "rendered") /\ ViewRequested))

(***************************************************************************)
(* C5 amended: a viewer is started if and only if the renderer completed   *)
(* successfully, view or quiet_view is true, and the viewer lookup did not *)
(* fail with the unsupported-combination error; it is never started before *)
(* the renderer has completed, never when rendering fails, and at most     *)
(* once per call.                                                          *)
(***************************************************************************)
C5_ViewerIffRequestedAndSupported ==
    InRender =>
        /\ After(log, "rendered", "view")
        /\ Count(log, "view") <= 1
        /\ pc = "done" =>
              (HasEv(log, "view") <=>
                  /\ HasEv(log, "rendered")
                  /\ ViewRequested
                  /\ ~Raised("RuntimeError"))

\* quiet_view alone starts the viewer
C5_Witness ==
    /\ InRender /\ pc = "done"
    /\ call.kw.quiet_view /\ ~call.kw.view
    /\ HasEv(log, "view")

(***************************************************************************)
(* C6: a pipe or render call with an engine or a requested format outside  *)
(* the known sets fails with ConfigurationError naming the invalid value,  *)
(* and at no point of the call has the external executable been invoked.   *)
(***************************************************************************)
RequestedFormat ==
    LET format == IF InRender THEN call.kw.format ELSE call.given.format
    IN  IF format = None THEN self.format ELSE format

UnknownValue ==
    /\ call.entry \in {"pipe", "render", "view"}
    /\ self.engine \notin ENGINES \/ RequestedFormat \notin FORMATS

C6_WitnessRender ==
    UnknownValue /\ pc = "done" /\ InRender /\ self.engine \notin ENGINES

(***************************************************************************)
(* C7: a pipe, render, view or unflatten call invokes its external         *)
(* executable at most once on every path, and a failure of that invocation *)
(* is what the call raises.                                                *)
(***************************************************************************)
C7_SingleAttempt ==
    /\ Count(log, "run") <= 1
    /\ (pc = "done" /\ HasEv(log, "run") /\ tool.run = "notfound") =>
            Raised("ExecutableNotFound")
    /\ (pc = "done" /\ HasEv(log, "run") /\ tool.run = "exit1") =>
            Raised("CalledProcessError")

\* the different-encoding path of pipe, failing
C7_Witness ==
    /\ pc = "done" /\ call.entry = "pipe"
    /\ call.given.encoding # None
    /\ Codec(call.given.encoding) # Codec(self.encoding)
    /\ Count(log, "run") = 1
    /\ Raised("CalledProcessError")

(***************************************************************************)
(* C8: unflatten hands back a new Source with the filename, directory,     *)
(* format, engine and encoding of the object it was called on and the      *)
(* preprocessor's output as text; the object itself keeps its six fields;  *)
(* when the preprocessor fails no Source is produced.                      *)
(***************************************************************************)
\* what the unflatten executable prints for the object's source
PreprocessorOutput ==
    Decode(self.encoding,
           ToolStdout(tool, Encode(self.encoding, self.source).val))

C8_UnflattenKeepsMetadata ==
    (pc = "done" /\ call.entry = "unflatten") =>
        /\ outcome.kind = "return" =>
              /\ outcome.val.source = PreprocessorOutput.val
              /\ outcome.val.filename = self.filename
              /\ outcome.val.directory = self.directory
              /\ outcome.val.format = self.format
              /\ outcome.val.engine = self.engine
              /\ outcome.val.encoding = self.encoding
        /\ outcome.kind = "raise" => outcome.val = None
        /\ self = call.given.obj
        /\ outcome.kind = "return" <=>
              /\ ~(call.given.fanout /\ call.given.stagger = None)
              /\ Encode(self.encoding, self.source).kind # "error"
              /\ tool.run = "ok"
              /\ PreprocessorOutput.kind # "error"

C8_Witness ==
    /\ pc = "done" /\ call.entry = "unflatten"
    /\ outcome.kind = "return"
    /\ outcome.val.source # self.source
    /\ self.encoding # "utf-8"

(***************************************************************************)
(* C9: the format that selects the viewer handler is the output format     *)
(* that was passed to the renderer in the same call.                       *)
(***************************************************************************)
C9_ViewerFormatIsRenderedFormat ==
    Dispatched => call.viewformat = call.format

(***************************************************************************)
(* C10: with cleanup=true and viewing requested but no handler, the call   *)
(* fails with the unsupported-viewer error after the output was rendered   *)
(* and the source deleted: cleanup precedes the dispatch, the failure      *)
(* neither restores the source nor removes the rendered file, and no path  *)
(* is returned.                                                            *)
(***************************************************************************)
Evs(l) == [i \in 1..Len(l) |-> l[i].ev]

C10_CleanupBeforeViewerFailure ==
    (InRender /\ call.kw.cleanup) =>
        /\ Dispatched => HasEv(log, "remove")
        /\ After(log, "remove", "view")
        /\ (pc = "done" /\ HasEv(log, "rendered") /\ ViewRequested
                /\ ~Registered(ForFormat(call.viewformat))
                /\ ~Registered(ForPlatform)) =>
              /\ Raised("RuntimeError")
              /\ outcome.val = None
              /\ Evs(log) = <<"save", "run", "rendered", "remove">>
              /\ call.filepath \notin fs
              /\ call.rendered \in fs

C10_Witness ==
    /\ InRender /\ call.kw.cleanup /\ pc = "done"
    /\ Raised("RuntimeError")
    /\ call.filepath \notin fs
    /\ call.rendered \in fs

====
